---- MODULE Spec2Model ----
(***************************************************************************)
(* FastCache: a facade over a Redis client (src/src/FastCache.ts and       *)
(* src/src/fast-cache.ts).  The module models                              *)
(*   - the scalar write paths set / setAll / remove and the store's own    *)
(*     expiry,                                                             *)
(*   - withCache: GET, hit or miss, the executor promise, and the          *)
(*     write-back / cleanup that setImmediate defers,                      *)
(*   - turnOnLock / lock / unlock on top of Redlock leases,                *)
(*   - get / set / remove against the store's clock, and cacheKey,         *)
(*   - the list and set collections,                                       *)
(*   - flush: FLUSHDB, or the SCAN / UNLINK loop.                          *)
(* Spec is the cache side, SpecLock the lock side, SpecRace the cache side *)
(* with executors that resolve to different values, SpecEnd the cache side *)
(* up to destroy(), SpecData the scalar operations under the clock,        *)
(* SpecList and SpecSet the collections, SpecFlush flush.                  *)
(***************************************************************************)
EXTENDS Integers, Sequences, FiniteSets, TLC

VARIABLES
    ttl,        \* this.ttl, seconds
    up,         \* the store answers commands (FALSE: connection lost)
    closed,     \* destroy() has ended the client
    store,      \* the store's string keys: key -> entry
    calls,      \* the withCache calls: call -> record
    immediates, \* the setImmediate queue of the process, in scheduling order
    log,        \* what the deferred tasks handed to debug(): call -> text
    now,        \* the clock, milliseconds
    leases,     \* the store's lock keys: name -> lease
    locker,     \* this.locker of each FastCache instance
    redlock,    \* this.redlock of each instance is set (turnOnLock ran)
    pending,    \* the redlock.lock call each instance has in flight
    nextToken,  \* the next random value Redlock draws
    owner,      \* which instance drew which value
    last,       \* the lock-side operation that ran last
    prefix,     \* this.prefix
    time,       \* the store's clock, seconds
    deadline,   \* when the store drops each string key: key -> seconds
    sent,       \* the command the facade sent last, and the key it was asked
    reply,      \* what the last facade call returned to its caller
    list,       \* the store's list under the key of cache.list(key)
    members,    \* the store's set under the key of cache.setOf(key)
    hist,       \* the add / remove calls made on cache.setOf(key), in order
    db,         \* the keys of the database flush works on
    scan,       \* the scan loop of the flush in progress
    stable      \* keys no other client has touched since the flush began

cacheVars == <<ttl, up, closed, store, calls, immediates, log>>
lockVars == <<now, leases, locker, redlock, pending, nextToken, owner, last>>
scalarVars == <<prefix, time, deadline, sent>>
collVars == <<list, members, hist>>
flushVars == <<db, scan, stable>>
dataVars == <<scalarVars, collVars, flushVars, reply>>
vars == <<ttl, up, closed, store, calls, immediates, log, now, leases, locker, redlock,
          pending, nextToken, owner, last, prefix, time, deadline, sent, reply,
          list, members, hist, db, scan, stable>>

----------------------------------------------------------------------------
(* Bounds of the model. *)

\* withCache calls made during a run
MaxCalls == 2
\* random values Redlock draws during a run
MaxTokens == 3
\* clock ticks during a run
MaxTicks == 4
\* elements a list holds at most
MaxLen == 4
\* steps of the store's clock during a run
MaxElapse == 6

----------------------------------------------------------------------------
(* JavaScript values, as far as JSON.stringify / JSON.parse tell them apart. *)

JsNull == [t |-> "null", n |-> 0, s |-> ""]
JsUndefined == [t |-> "undefined", n |-> 0, s |-> ""]
\* an object that refers to itself: JSON.stringify throws on it
JsCyclic == [t |-> "cyclic", n |-> 0, s |-> ""]
JsNumber(n) == [t |-> "number", n |-> n, s |-> ""]
JsString(s) == [t |-> "string", n |-> 0, s |-> s]

\* the values JSON text can denote, within the model's universe
JsonValues ==
    {JsNull, JsNumber(7), JsNumber(8), JsString("world"), JsString("7")}

\* JSON.stringify(o) for a value it accepts
Stringify(o) ==
    CASE o.t = "number" -> JsString(ToString(o.n))
      [] o.t = "string" -> JsString("\"" \o o.s \o "\"")
      [] o.t = "null" -> JsString("null")
      [] OTHER -> JsUndefined

\* FastCache.serialize: JSON.stringify, null when it throws
serialize(o) == IF o.t = "cyclic" THEN JsNull ELSE Stringify(o)

\* JSON.parse(s) succeeds
Parses(s) == \E v \in JsonValues : Stringify(v) = JsString(s)

\* FastCache.deserialize: JSON.parse, null when it throws
deserialize(s) ==
    IF Parses(s) THEN CHOOSE v \in JsonValues : Stringify(v) = JsString(s)
    ELSE JsNull

----------------------------------------------------------------------------
(* The store: string keys with an expiry. *)

Keys == {"k1"}

\* this.ttl when opts.ttl is absent: 60 * 5
DefaultTtl == 300

\* opts.ttl as the caller may give it; 0 stands for an absent option
TtlOpts == {0, 60}

\* the ex argument of set; 0 stands for an omitted argument
ExArgs == {0, 10, -1}

\* the strings callers hand to set and setAll
SetValues == {"7", "world"}

\* the values an executor may resolve with
ExecValues == {JsNumber(7), JsCyclic}

\* the values the executors of racing calls resolve with
RaceValues == {JsNumber(7), JsNumber(8)}

\* An entry: the string, its expiry in seconds (0: none), and for the record
\* the path that wrote it and the ex argument that path was called with.
NoEntry == [val |-> "", ex |-> 0, by |-> "absent", arg |-> 0]
Entry(v, ex, by, arg) == [val |-> v, ex |-> ex, by |-> by, arg |-> arg]

\* SET key value EX seconds: the store refuses a non-positive expiry
StoreSet(st, k, v, ex, by, arg) ==
    IF ex > 0 THEN [st EXCEPT ![k] = Entry(v, ex, by, arg)] ELSE st

\* DEL key
StoreDel(st, k) == [st EXCEPT ![k] = NoEntry]

\* GET key: the string, or null
StoreGet(st, k) == IF st[k] = NoEntry THEN JsNull ELSE JsString(st[k].val)

\* a || b on numbers
OrElse(a, b) == IF a = 0 THEN b ELSE a

\* JavaScript truthiness of a GET reply
Truthy(v) == v.t = "string" /\ v.s # ""

----------------------------------------------------------------------------
(* The facade's scalar operations, as functions of the store. *)

\* set as it would be without the default: EX only when ex is given, a plain
\* SET (no expiry) otherwise
setWithoutDefault(st, k, v, ex, by) ==
    IF ex = 0 THEN [st EXCEPT ![k] = Entry(v, 0, by, ex)]
    ELSE StoreSet(st, k, v, ex, by, ex)

\* set as it would be with NX: the write is dropped when the key has an entry
setIfAbsent(st, k, v, ex, by) ==
    IF st[k] = NoEntry THEN StoreSet(st, k, v, OrElse(ex, ttl), by, ex) ELSE st

\* FastCache.set: SET key value EX (ex || this.ttl)
set(st, k, v, ex, by) ==
    StoreSet(st, k, v, OrElse(ex, ttl), by, ex)

\* FastCache.remove: DEL key
remove(st, k) == StoreDel(st, k)

\* FastCache.get: GET key
get(st, k) == StoreGet(st, k)

\* setAll's MULTI: one SET key value EX this.ttl per own property of obj
RECURSIVE multiSet(_, _, _)
multiSet(st, obj, ks) ==
    IF ks = {} THEN st
    ELSE LET k == CHOOSE x \in ks : TRUE
         IN multiSet(StoreSet(st, k, obj[k], ttl, "setAll", 0),
                     obj, ks \ {k})

----------------------------------------------------------------------------
(* withCache calls. *)

Calls == 1..MaxCalls

NoValue == [st |-> "none", val |-> JsUndefined, err |-> ""]
Pending == [st |-> "pending", val |-> JsUndefined, err |-> ""]
Resolved(v) == [st |-> "resolved", val |-> v, err |-> ""]
Rejected(e) == [st |-> "rejected", val |-> JsUndefined, err |-> e]

\* pc: idle, get (GET in flight), await (subscribed to the executor), done
\* exec: the executor promise; invoked: how often its computation was started
\* got: the GET reply; subs: how often withCache subscribed to the executor
\* outcome: what the promise withCache returned has settled to
IdleCall ==
    [pc |-> "idle", key |-> "", exec |-> NoValue, invoked |-> 0,
     got |-> NoValue, subs |-> 0, outcome |-> NoValue]

InitCache ==
    /\ \E o \in TtlOpts : ttl = OrElse(o, DefaultTtl)
    /\ up = TRUE
    /\ closed = FALSE
    /\ store = [k \in Keys |-> NoEntry]
    /\ calls = [i \in Calls |-> IdleCall]
    /\ immediates = <<>>
    /\ log = [i \in Calls |-> ""]

\* A caller calls withCache(k, executor).  The argument is a Promise: the
\* computation behind it has been started by the time the call is made.
\* withCache issues GET k.
Call(i, k) ==
    /\ calls[i].pc = "idle"
    /\ \A j \in Calls : j < i => calls[j].pc # "idle"
    /\ calls' = [calls EXCEPT ![i] =
                    [@ EXCEPT !.pc = "get", !.key = k, !.exec = Pending,
                              !.invoked = @ + 1]]
    /\ UNCHANGED <<ttl, closed, up, store, immediates, log, lockVars, dataVars>>

\* The executor promise settles, whatever withCache is doing meanwhile.
Settle(i, r) ==
    /\ calls[i].exec.st = "pending"
    /\ calls' = [calls EXCEPT ![i].exec = r]
    /\ UNCHANGED <<ttl, closed, up, store, immediates, log, lockVars, dataVars>>

\* await this.get(key) rejects: withCache rejects with the store's error.
GetFails(i) ==
    /\ calls[i].pc = "get"
    /\ ~up
    /\ calls' = [calls EXCEPT ![i] =
                    [@ EXCEPT !.pc = "done", !.got = Rejected("StoreError"),
                              !.outcome = Rejected("StoreError")]]
    /\ UNCHANGED <<ttl, closed, up, store, immediates, log, lockVars, dataVars>>

\* the hit path as it would be if it renewed the entry it has read
GetHitRefreshes(i) ==
    /\ calls[i].pc = "get"
    /\ up
    /\ LET cached == get(store, calls[i].key)
       IN /\ Truthy(cached)
          /\ store' = set(store, calls[i].key, cached.s, 0, "withCache")
          /\ calls' = [calls EXCEPT ![i] =
                          [@ EXCEPT !.pc = "done", !.got = Resolved(cached),
                                    !.outcome = Resolved(deserialize(cached.s))]]
    /\ UNCHANGED <<ttl, closed, up, immediates, log, lockVars, dataVars>>

\* if (cached) return this.deserialize(cached)
GetHit(i) ==
    /\ calls[i].pc = "get"
    /\ up
    /\ LET cached == get(store, calls[i].key)
       IN /\ Truthy(cached)
          /\ calls' = [calls EXCEPT ![i] =
                          [@ EXCEPT !.pc = "done", !.got = Resolved(cached),
                                    !.outcome = Resolved(deserialize(cached.s))]]
    /\ UNCHANGED <<ttl, closed, up, store, immediates, log, lockVars, dataVars>>

\* cached is falsy: return executor.then(...).catch(...)
GetMiss(i) ==
    /\ calls[i].pc = "get"
    /\ up
    /\ LET cached == get(store, calls[i].key)
       IN /\ ~Truthy(cached)
          /\ calls' = [calls EXCEPT ![i] =
                          [@ EXCEPT !.pc = "await", !.got = Resolved(cached),
                                    !.subs = @ + 1]]
    /\ UNCHANGED <<ttl, closed, up, store, immediates, log, lockVars, dataVars>>

\* the success handler as it would be if it awaited the write-back before
\* returning the result
ThenHandlerAwaitsSet(i) ==
    /\ calls[i].pc = "await"
    /\ calls[i].exec.st = "resolved"
    /\ IF up
       THEN /\ store' = set(store, calls[i].key, serialize(calls[i].exec.val).s, 0, "withCache")
            /\ log' = [log EXCEPT ![i] = "set ok"]
            /\ calls' = [calls EXCEPT ![i] =
                            [@ EXCEPT !.pc = "done",
                                      !.outcome = Resolved(calls[i].exec.val)]]
       ELSE /\ store' = store
            /\ log' = [log EXCEPT ![i] = "set error"]
            /\ calls' = [calls EXCEPT ![i] =
                            [@ EXCEPT !.pc = "done",
                                      !.outcome = Rejected("StoreError")]]
    /\ UNCHANGED <<ttl, closed, up, immediates, lockVars, dataVars>>

\* .then((result) => { setImmediate(write-back); return result; })
ThenHandler(i) ==
    /\ calls[i].pc = "await"
    /\ calls[i].exec.st = "resolved"
    /\ immediates' = Append(immediates, i)
    /\ calls' = [calls EXCEPT ![i] =
                    [@ EXCEPT !.pc = "done", !.outcome = Resolved(calls[i].exec.val)]]
    /\ UNCHANGED <<ttl, closed, up, store, log, lockVars, dataVars>>

\* the failure handler as it would be without its "throw err"
CatchHandlerSwallows(i) ==
    /\ calls[i].pc = "await"
    /\ calls[i].exec.st = "rejected"
    /\ immediates' = Append(immediates, i)
    /\ calls' = [calls EXCEPT ![i] =
                    [@ EXCEPT !.pc = "done", !.outcome = Resolved(JsUndefined)]]
    /\ UNCHANGED <<ttl, closed, up, store, log, lockVars, dataVars>>

\* .catch((err) => { setImmediate(cleanup); throw err; })
CatchHandler(i) ==
    /\ calls[i].pc = "await"
    /\ calls[i].exec.st = "rejected"
    /\ immediates' = Append(immediates, i)
    /\ calls' = [calls EXCEPT ![i] =
                    [@ EXCEPT !.pc = "done", !.outcome = Rejected(calls[i].exec.err)]]
    /\ UNCHANGED <<ttl, closed, up, store, log, lockVars, dataVars>>

\* what the client does with SET key <null or undefined>: node_redis 2.x
\* sends the text "null" / "undefined", 3.x rejects the command
ArgTexts(v) == IF v.t = "string" THEN {v.s} ELSE {v.t, "<rejected>"}

\* the deferred task as it would be if both paths ran the cleanup
DeferredRemoves(i) ==
    IF ~up
    THEN /\ log' = [log EXCEPT ![i] = "set error"]
         /\ store' = store
    ELSE /\ log' = [log EXCEPT ![i] = "set ok"]
         /\ store' = remove(store, calls[i].key)

\* the deferred task as it would be without its .catch(): a failed command
\* leaves a rejected promise nobody handles
DeferredWithoutCatch(i) ==
    LET c == calls[i]
    IN IF ~up
       THEN /\ log' = [log EXCEPT ![i] = "unhandledRejection"]
            /\ store' = store
       ELSE IF c.outcome.st = "resolved"
       THEN \E txt \in ArgTexts(serialize(c.outcome.val)) :
               IF txt = "<rejected>"
               THEN /\ log' = [log EXCEPT ![i] = "unhandledRejection"]
                    /\ store' = store
               ELSE /\ log' = [log EXCEPT ![i] = "set ok"]
                    /\ store' = set(store, c.key, txt, 0, "withCache")
       ELSE /\ log' = [log EXCEPT ![i] = "set ok"]
            /\ store' = remove(store, c.key)

\* The deferred task of call i: on the success path
\*   this.set(key, this.serialize(result)).then(debug 'set ok').catch(debug 'set error')
\* on the failure path
\*   this.remove(key).then(debug 'set ok').catch(debug 'set error')
Deferred(i) ==
    LET c == calls[i]
    IN IF ~up
       THEN /\ log' = [log EXCEPT ![i] = "set error"]
            /\ store' = store
       ELSE IF c.outcome.st = "resolved"
       THEN \E txt \in ArgTexts(serialize(c.outcome.val)) :
               IF txt = "<rejected>"
               THEN /\ log' = [log EXCEPT ![i] = "set error"]
                    /\ store' = store
               ELSE /\ log' = [log EXCEPT ![i] = "set ok"]
                    /\ store' = set(store, c.key, txt, 0, "withCache")
       ELSE /\ log' = [log EXCEPT ![i] = "set ok"]
            /\ store' = remove(store, c.key)

\* The event loop reaches its check phase and runs the oldest setImmediate
\* callback.
RunImmediate ==
    /\ immediates # <<>>
    /\ Deferred(Head(immediates))
    /\ immediates' = Tail(immediates)
    /\ UNCHANGED <<ttl, closed, up, calls, lockVars, dataVars>>

----------------------------------------------------------------------------
(* Other users of the facade, and the store's own behaviour.  A command    *)
(* sent while the store does not answer fails and changes nothing.         *)

\* cache.set(k, v, ex)
Set(k, v, ex) ==
    /\ up
    /\ store' = set(store, k, v, ex, "set")
    /\ UNCHANGED <<ttl, closed, up, calls, immediates, log, lockVars, dataVars>>

\* cache.remove(k)
Remove(k) ==
    /\ up
    /\ store' = remove(store, k)
    /\ UNCHANGED <<ttl, closed, up, calls, immediates, log, lockVars, dataVars>>

\* cache.setAll(obj)
SetAll(obj) ==
    /\ up
    /\ store' = multiSet(store, obj, DOMAIN obj)
    /\ UNCHANGED <<ttl, closed, up, calls, immediates, log, lockVars, dataVars>>

\* the objects callers hand to setAll
SetAllArgs == UNION {[ks -> SetValues] : ks \in (SUBSET Keys) \ {{}}}

\* The store drops a key whose expiry has elapsed.
Expire(k) ==
    /\ store[k].ex > 0
    /\ store' = [store EXCEPT ![k] = NoEntry]
    /\ UNCHANGED <<ttl, closed, up, calls, immediates, log, lockVars, dataVars>>

\* The connection to the store is lost / comes back.
StoreDown ==
    /\ up
    /\ up' = FALSE
    /\ UNCHANGED <<ttl, closed, store, calls, immediates, log, lockVars, dataVars>>

StoreUp ==
    /\ ~up
    /\ ~closed
    /\ up' = TRUE
    /\ UNCHANGED <<ttl, closed, store, calls, immediates, log, lockVars, dataVars>>

\* cache.destroy(): this.client.end(true).  The connection is closed for
\* good; the commands in flight and every command sent from now on fail with
\* the client's AbortError, handed to the command's callback.
destroy ==
    /\ ~closed
    /\ closed' = TRUE
    /\ up' = FALSE
    /\ UNCHANGED <<ttl, store, calls, immediates, log, lockVars, dataVars>>

----------------------------------------------------------------------------
(* Locks: turnOnLock / lock / unlock over Redlock, one store. *)

LockNames == {"L", "M"}

\* the FastCache instances (one per cooperating process): the lock holders
Instances == {"A", "B"}

\* this.redlockttl, milliseconds
redlockttl == 1000

\* the clock advances in steps of half a lease
TickMs == redlockttl \div 2

Tokens == 1..MaxTokens

\* a lock key of the store: the value that owns it and when it expires; for
\* the record, replaced is the value of the expired, never released lease the
\* grant found under the key (0: the key was free)
NoLease == [token |-> 0, expireAt |-> 0, replaced |-> 0]
\* a Redlock Lock object: resource and value
NoLock == [resource |-> "", value |-> 0]
\* a redlock.lock call in flight; refused: an attempt of the call found the
\* valid lease of another holder under the key
NoPending == [resource |-> "", value |-> 0, refused |-> FALSE]
\* the last lock-side operation
NoOp == [op |-> "none", inst |-> "", name |-> "", refused |-> FALSE]
Op(o, a, l) == [NoOp EXCEPT !.op = o, !.inst = a, !.name = l]

InitLock ==
    /\ now = 0
    /\ leases = [l \in LockNames |-> NoLease]
    /\ locker = [a \in Instances |-> NoLock]
    /\ redlock = [a \in Instances |-> FALSE]
    /\ pending = [a \in Instances |-> NoPending]
    /\ nextToken = 1
    /\ owner = [t \in Tokens |-> ""]
    /\ last = NoOp

\* a store that never expires a lock key (SET NX without PX)
ValidUntilReleased(l) == leases[l].token # 0

\* the store still honors the lease on l
Valid(l) == leases[l].token # 0 /\ leases[l].expireAt > now

\* turnOnLock(): this.redlock = new Redlock([client])
turnOnLock(a) ==
    /\ ~redlock[a]
    /\ redlock' = [redlock EXCEPT ![a] = TRUE]
    /\ last' = Op("turnOnLock", a, "")
    /\ UNCHANGED <<now, leases, locker, pending, nextToken, owner, cacheVars, dataVars>>

\* lock(key): this.redlock.lock(key, this.redlockttl) starts; Redlock draws
\* the random value of the lock once, before its first attempt.
lock(a, l) ==
    /\ redlock[a]
    /\ pending[a] = NoPending
    /\ nextToken \in Tokens
    /\ pending' = [pending EXCEPT ![a] =
                      [resource |-> l, value |-> nextToken, refused |-> FALSE]]
    /\ owner' = [owner EXCEPT ![nextToken] = a]
    /\ nextToken' = nextToken + 1
    /\ last' = Op("lock", a, l)
    /\ UNCHANGED <<now, leases, locker, redlock, cacheVars, dataVars>>

\* an attempt as it would be with a plain SET resource value PX ttl
GrantedWithoutNX(a) ==
    LET p == pending[a]
    IN /\ p # NoPending
       /\ leases' = [leases EXCEPT ![p.resource] =
                        [token |-> p.value, expireAt |-> now + redlockttl,
                         replaced |-> leases[p.resource].token]]
       /\ locker' = [locker EXCEPT ![a] = [resource |-> p.resource, value |-> p.value]]
       /\ pending' = [pending EXCEPT ![a] = NoPending]
       /\ last' = [Op("granted", a, p.resource) EXCEPT !.refused = p.refused]
       /\ UNCHANGED <<now, redlock, nextToken, owner, cacheVars, dataVars>>

\* One attempt of the call in flight: SET resource value NX PX ttl.  Granted:
\* the call resolves and lock() stores the Lock in this.locker.
Granted(a) ==
    LET p == pending[a]
    IN /\ p # NoPending
       /\ ~Valid(p.resource)
       /\ leases' = [leases EXCEPT ![p.resource] =
                        [token |-> p.value, expireAt |-> now + redlockttl,
                         replaced |-> leases[p.resource].token]]
       /\ locker' = [locker EXCEPT ![a] = [resource |-> p.resource, value |-> p.value]]
       /\ pending' = [pending EXCEPT ![a] = NoPending]
       /\ last' = [Op("granted", a, p.resource) EXCEPT !.refused = p.refused]
       /\ UNCHANGED <<now, redlock, nextToken, owner, cacheVars, dataVars>>

\* The key is taken and Redlock has retries left (new Redlock([client]) takes
\* the library's default retryCount and retryDelay): the call stays in
\* flight and tries again later.
Retry(a) ==
    LET p == pending[a]
    IN /\ p # NoPending
       /\ Valid(p.resource)
       /\ pending' = [pending EXCEPT ![a].refused =
                         @ \/ owner[leases[p.resource].token] # a]
       /\ last' = Op("retry", a, p.resource)
       /\ UNCHANGED <<now, leases, locker, redlock, nextToken, owner, cacheVars, dataVars>>

\* The key is taken and the retries are used up: the call rejects with a
\* LockError; this.locker keeps what it held.
Contention(a) ==
    LET p == pending[a]
    IN /\ p # NoPending
       /\ Valid(p.resource)
       /\ pending' = [pending EXCEPT ![a] = NoPending]
       /\ last' = [Op("contention", a, p.resource) EXCEPT !.refused = p.refused]
       /\ UNCHANGED <<now, leases, locker, redlock, nextToken, owner, cacheVars, dataVars>>

\* unlock as a plain DEL of the Lock's resource
ReleaseByName(ls, lk) ==
    IF lk.resource # "" THEN [ls EXCEPT ![lk.resource] = NoLease] ELSE ls

\* unlock as it would be if the instance kept every Lock it was granted and
\* released them all
ReleaseAllOfInstance(ls, lk) ==
    [l \in LockNames |->
        IF /\ lk.value # 0
           /\ ls[l].token # 0
           /\ owner[ls[l].token] = owner[lk.value]
        THEN NoLease ELSE ls[l]]

\* Redlock's unlock script: delete the key if it still holds the Lock's value
Release(ls, lk) ==
    IF lk.resource # "" /\ ls[lk.resource].token = lk.value
    THEN [ls EXCEPT ![lk.resource] = NoLease]
    ELSE ls

\* unlock(): await this.locker.unlock().  With no Lock stored the call throws
\* and nothing is sent.
unlock(a) ==
    /\ leases' = Release(leases, locker[a])
    /\ last' = Op("unlock", a, locker[a].resource)
    /\ UNCHANGED <<now, locker, redlock, pending, nextToken, owner, cacheVars, dataVars>>

\* Time passes.
Tick ==
    /\ now < MaxTicks * TickMs
    /\ now' = now + TickMs
    /\ last' = Op("tick", "", "")
    /\ UNCHANGED <<leases, locker, redlock, pending, nextToken, owner, cacheVars, dataVars>>

----------------------------------------------------------------------------
(* The scalar operations as one caller sees them, against the store's      *)
(* clock: what was sent, what came back, and when the store drops a key.   *)

\* opts.prefix as the caller may give it; "" stands for an absent option
PrefixOpts == {"", "app:"}

\* a || b on strings
OrElseStr(a, b) == IF a = "" THEN b ELSE a

\* the command sent last: its name, the keys it carried, and the keys the
\* caller had passed to the facade
NoCommand == [cmd |-> "none", keys |-> {}, asked |-> {}]
Command(c, ks, asked) == [cmd |-> c, keys |-> ks, asked |-> asked]

\* the seconds the clock advances by in one step
TimeStep == DefaultTtl \div 5

\* init(opts): this.prefix = opts.prefix || ''
InitData ==
    /\ \E p \in PrefixOpts : prefix = OrElseStr(p, "")
    /\ time = 0
    /\ deadline = [k \in Keys |-> 0]
    /\ sent = NoCommand
    /\ reply = NoValue

\* a store whose keys never expire
ExpiredNever(st, k, t) == FALSE

\* the store drops key k once the clock has reached the key's deadline
Expired(st, k, t) == st[k] # NoEntry /\ deadline[k] <= t

\* cache.set(k, v, ex): setAsync(key, value, 'EX', ex || this.ttl)
CallSet(k, v, ex) ==
    /\ sent' = Command("set", {k}, {k})
    /\ IF ~up
       THEN /\ reply' = Rejected("StoreError")
            /\ UNCHANGED <<store, deadline>>
       ELSE IF OrElse(ex, ttl) > 0
       THEN /\ reply' = Resolved(JsString("OK"))
            /\ store' = set(store, k, v, ex, "set")
            /\ deadline' = [deadline EXCEPT ![k] = time + OrElse(ex, ttl)]
       ELSE /\ reply' = Rejected("ReplyError")
            /\ UNCHANGED <<store, deadline>>
    /\ UNCHANGED <<ttl, closed, up, calls, immediates, log, lockVars, prefix, time,
                   collVars, flushVars>>

\* cache.get(k): getAsync(key)
CallGet(k) ==
    /\ sent' = Command("get", {k}, {k})
    /\ reply' = IF up THEN Resolved(get(store, k)) ELSE Rejected("StoreError")
    /\ UNCHANGED <<cacheVars, lockVars, prefix, time, deadline, collVars,
                   flushVars>>

\* cache.remove(k): delAsync(key); DEL replies with the number of keys removed
CallRemove(k) ==
    /\ sent' = Command("del", {k}, {k})
    /\ IF up
       THEN /\ reply' = Resolved(JsNumber(IF store[k] = NoEntry THEN 0 ELSE 1))
            /\ store' = remove(store, k)
       ELSE /\ reply' = Rejected("StoreError")
            /\ store' = store
    /\ UNCHANGED <<ttl, closed, up, calls, immediates, log, lockVars, prefix, time,
                   deadline, collVars, flushVars>>

\* cache.setAll(obj): MULTI, one SET key value EX this.ttl per entry, EXEC
CallSetAll(obj) ==
    /\ sent' = Command("multi", DOMAIN obj, DOMAIN obj)
    /\ IF up
       THEN /\ reply' = Resolved(JsUndefined)
            /\ store' = multiSet(store, obj, DOMAIN obj)
            /\ deadline' = [k \in Keys |->
                               IF k \in DOMAIN obj /\ ttl > 0 THEN time + ttl
                               ELSE deadline[k]]
       ELSE /\ reply' = Rejected("StoreError")
            /\ UNCHANGED <<store, deadline>>
    /\ UNCHANGED <<ttl, closed, up, calls, immediates, log, lockVars, prefix, time,
                   collVars, flushVars>>

\* Time passes; the store drops the keys whose expiry has elapsed.
Elapse ==
    /\ time < MaxElapse * TimeStep
    /\ time' = time + TimeStep
    /\ store' = [k \in Keys |->
                    IF Expired(store, k, time') THEN NoEntry ELSE store[k]]
    /\ UNCHANGED <<ttl, closed, up, calls, immediates, log, lockVars, prefix, deadline,
                   sent, reply, collVars, flushVars>>

----------------------------------------------------------------------------
(* cacheKey: createHash('sha1').update(this.serialize(o)).digest('base64') *)

\* what a synchronous call did: returned a value, or threw
Returned(v) == [st |-> "returned", val |-> v, err |-> ""]
Thrown(e) == [st |-> "thrown", val |-> JsUndefined, err |-> e]

\* the values callers hand to cacheKey
KeyArgs == {JsNumber(7), JsString("world"), JsNull, JsUndefined, JsCyclic}

\* .digest('base64') of the SHA-1 of a text: a string that is a function of
\* the text and tells different texts apart
Digest(text) == "sha1:" \o text

\* a hash whose update() turns what is not a string into text first
hashOfAnything(data) ==
    Returned(JsString(Digest(IF data.t = "string" THEN data.s ELSE data.t)))

\* createHash('sha1').update(data).digest('base64'): update() accepts a
\* string or a buffer and throws a TypeError on anything else
hash(data) ==
    IF data.t = "string" THEN Returned(JsString(Digest(data.s)))
    ELSE Thrown("TypeError")

\* FastCache.cacheKey
cacheKey(o) == hash(serialize(o))

\* cache.cacheKey(o): no command is sent, no field is written
CallCacheKey(o) ==
    /\ reply' = cacheKey(o)
    /\ UNCHANGED <<cacheVars, lockVars, scalarVars, collVars, flushVars>>

----------------------------------------------------------------------------
(* cache.list(key): the facade over the store's list commands.  One list   *)
(* key is modelled; the list is written head first.                        *)

\* the strings callers push
ListValues == {"one", "two"}

\* a list reply: the elements, head first
JsArray(l) == [t |-> "array", n |-> Len(l), s |-> "", items |-> l]

\* the elements of l, last first
RECURSIVE Reverse(_)
Reverse(l) == IF l = <<>> THEN <<>> ELSE Append(Reverse(Tail(l)), Head(l))

\* an index as the store reads it: a negative one counts from the tail
Index(l, i) == IF i < 0 THEN Len(l) + i ELSE i

\* LPUSH that puts the values at the tail
lpushAtTail(l, vs) == l \o vs

\* RPUSH key v... / LPUSH key v...: each value in turn goes to the tail / head
rpush(l, vs) == l \o vs
lpush(l, vs) == Reverse(vs) \o l

\* RPOP / LPOP reply: the element at the tail / head, null on an empty list
rpopReply(l) == IF l = <<>> THEN JsNull ELSE JsString(l[Len(l)])
lpopReply(l) == IF l = <<>> THEN JsNull ELSE JsString(Head(l))

\* the list RPOP / LPOP leaves
rpopRest(l) == IF l = <<>> THEN l ELSE SubSeq(l, 1, Len(l) - 1)
lpopRest(l) == IF l = <<>> THEN l ELSE Tail(l)

\* LRANGE key start stop: zero-based, both ends included, clamped to the list
lrange(l, start, stop) ==
    LET from == IF Index(l, start) < 0 THEN 0 ELSE Index(l, start)
        to == IF Index(l, stop) >= Len(l) THEN Len(l) - 1 ELSE Index(l, stop)
    IN IF from > to THEN <<>> ELSE SubSeq(l, from + 1, to + 1)

\* LTRIM key start stop: the list keeps what LRANGE would return
ltrim(l, start, stop) == lrange(l, start, stop)

\* the lists callers hand to setAll
ListArgs == {<<v>> : v \in ListValues} \cup
            {<<v, w>> : v \in ListValues, w \in ListValues}

\* the store refuses nothing here; a lost connection fails the command
ListReply(r) == IF up THEN Resolved(r) ELSE Rejected("StoreError")

\* list.push(v): rpushAsync(key, value); the reply is the new length
ListPush(v) ==
    /\ Len(list) < MaxLen
    /\ list' = IF up THEN rpush(list, <<v>>) ELSE list
    /\ reply' = ListReply(JsNumber(Len(list) + 1))
    /\ UNCHANGED <<cacheVars, lockVars, scalarVars, members, hist, flushVars>>

\* list.unshift(v): lpushAsync(key, value)
ListUnshift(v) ==
    /\ Len(list) < MaxLen
    /\ list' = IF up THEN lpush(list, <<v>>) ELSE list
    /\ reply' = ListReply(JsNumber(Len(list) + 1))
    /\ UNCHANGED <<cacheVars, lockVars, scalarVars, members, hist, flushVars>>

\* list.pop(): rpopAsync(key)
ListPop ==
    /\ list' = IF up THEN rpopRest(list) ELSE list
    /\ reply' = ListReply(rpopReply(list))
    /\ UNCHANGED <<cacheVars, lockVars, scalarVars, members, hist, flushVars>>

\* list.shift(): lpopAsync(key)
ListShift ==
    /\ list' = IF up THEN lpopRest(list) ELSE list
    /\ reply' = ListReply(lpopReply(list))
    /\ UNCHANGED <<cacheVars, lockVars, scalarVars, members, hist, flushVars>>

\* list.setAll(values): lpushAsync(key, values)
ListSetAll(vs) ==
    /\ Len(list) + Len(vs) <= MaxLen
    /\ list' = IF up THEN lpush(list, vs) ELSE list
    /\ reply' = ListReply(JsNumber(Len(list) + Len(vs)))
    /\ UNCHANGED <<cacheVars, lockVars, scalarVars, members, hist, flushVars>>

\* list.getAll(start = 0, stop = -1): lrangeAsync(key, start, stop)
ListGetAll ==
    /\ reply' = ListReply(JsArray(lrange(list, 0, -1)))
    /\ UNCHANGED <<cacheVars, lockVars, scalarVars, collVars, flushVars>>

\* list.removeAll(start = -1, stop = 0): ltrimAsync(key, start, stop)
ListRemoveAll ==
    /\ list' = IF up THEN ltrim(list, -1, 0) ELSE list
    /\ reply' = ListReply(JsString("OK"))
    /\ UNCHANGED <<cacheVars, lockVars, scalarVars, members, hist, flushVars>>

\* list.length(): llenAsync(key)
ListLength ==
    /\ reply' = ListReply(JsNumber(Len(list)))
    /\ UNCHANGED <<cacheVars, lockVars, scalarVars, collVars, flushVars>>

----------------------------------------------------------------------------
(* cache.setOf(key): the facade over the store's set commands. *)

\* the strings callers add
SetMembers == {"a", "b", "c"}

\* what client.scard(key) returns: the client's flag, never the count
JsBoolean(b) == [t |-> "boolean", n |-> IF b THEN 1 ELSE 0, s |-> ""]

\* SADD that replaces the set
saddReplacing(m, vs) == vs

\* SADD key v... / SREM key v...
sadd(m, vs) == m \cup vs
srem(m, vs) == m \ vs

\* the call made last on each value
Noted(h, vs, what) == [v \in SetMembers |-> IF v \in vs THEN what ELSE h[v]]

InitColl ==
    /\ list = <<>>
    /\ members = {}
    /\ hist = [v \in SetMembers |-> "none"]

\* set.add(...values): saddAsync(key, ...values); the reply is the number of
\* new members.  The store refuses the command without a value.
SetAdd(vs) ==
    /\ IF ~up THEN /\ reply' = Rejected("StoreError")
                   /\ UNCHANGED <<members, hist>>
       ELSE IF vs = {} THEN /\ reply' = Rejected("ReplyError")
                            /\ UNCHANGED <<members, hist>>
       ELSE /\ reply' = Resolved(JsNumber(Cardinality(vs \ members)))
            /\ members' = sadd(members, vs)
            /\ hist' = Noted(hist, vs, "added")
    /\ UNCHANGED <<cacheVars, lockVars, scalarVars, list, flushVars>>

\* set.remove(...values): sremAsync(key, ...values); the reply is the number
\* of members removed
SetRemove(vs) ==
    /\ IF ~up THEN /\ reply' = Rejected("StoreError")
                   /\ UNCHANGED <<members, hist>>
       ELSE IF vs = {} THEN /\ reply' = Rejected("ReplyError")
                            /\ UNCHANGED <<members, hist>>
       ELSE /\ reply' = Resolved(JsNumber(Cardinality(vs \cap members)))
            /\ members' = srem(members, vs)
            /\ hist' = Noted(hist, vs, "removed")
    /\ UNCHANGED <<cacheVars, lockVars, scalarVars, list, flushVars>>

\* set.contains(v): sismemberAsync(key, value); the reply is 1 or 0
SetContains(v) ==
    /\ reply' = IF up THEN Resolved(JsNumber(IF v \in members THEN 1 ELSE 0))
                ELSE Rejected("StoreError")
    /\ UNCHANGED <<cacheVars, lockVars, scalarVars, collVars, flushVars>>

\* set.length(): this.client.scard(key), without Async: the command is sent
\* and its reply dropped; the caller gets what the client call returned
SetLength ==
    /\ reply' = Resolved(JsBoolean(up))
    /\ UNCHANGED <<cacheVars, lockVars, scalarVars, collVars, flushVars>>

----------------------------------------------------------------------------
(* flush(pattern).  Keys and patterns are written character by character,  *)
(* so that MATCH is the store's glob and not a table.                      *)

\* the keys clients of the database use
FlushKeys == {<<"a", "1">>, <<"a", "2">>, <<"b", "1">>}

\* the patterns callers hand to flush
Patterns == {<<"*">>, <<"a", "*">>}

\* the order in which a full SCAN iteration walks the keyspace
SlotOrder == <<<<"a", "1">>, <<"b", "1">>, <<"a", "2">>>>

\* COUNT of every SCAN round: the work the store is asked to do per round
ScanCount == 50

\* MATCH pattern: literal characters and *
RECURSIVE Glob(_, _)
Glob(p, k) ==
    IF p = <<>> THEN k = <<>>
    ELSE IF Head(p) = "*"
    THEN Glob(Tail(p), k) \/ (k # <<>> /\ Glob(p, Tail(k)))
    ELSE k # <<>> /\ Head(k) = Head(p) /\ Glob(Tail(p), Tail(k))

\* the scan loop: idle, scan (SCAN in flight), unlink (UNLINK in flight, the
\* next SCAN behind it), done (the store reported cursor '0'), failed (a
\* SCAN came back with an error).  cursor: the one sent, or the one the
\* store returned; keys: the keys handed to UNLINK; errs: an UNLINK failed;
\* rounds: the SCAN replies handled so far.
NoScan ==
    [pc |-> "idle", pattern |-> <<>>, cursor |-> 0, count |-> 0, keys |-> {},
     errs |-> FALSE, rounds |-> 0]

InitFlush ==
    /\ db = {}
    /\ scan = NoScan
    /\ stable = {}

\* a SCAN that reports the end of the walk after the first round
ScanNextOnce(cursor, m) == 0

\* SCAN cursor MATCH pattern COUNT n, on a keyspace walked in SlotOrder: the
\* round walks m slots from the cursor on and returns the keys it found there
\* that match, with the next cursor ('0' when the walk is complete)
ScanNext(cursor, m) ==
    IF cursor + m >= Len(SlotOrder) THEN 0 ELSE cursor + m
ScanKeys(keyspace, pattern, cursor, m) ==
    {SlotOrder[i] : i \in {j \in (cursor + 1)..(cursor + m) :
                              /\ j <= Len(SlotOrder)
                              /\ SlotOrder[j] \in keyspace
                              /\ Glob(pattern, SlotOrder[j])}}

\* cache.flush(pattern): FLUSHDB ASYNC for '*', else the first SCAN from
\* cursor '0'.  The async function returns before any reply to SCAN.
Flush(p) ==
    /\ scan.pc \in {"idle", "done", "failed"}
    /\ IF p = <<"*">>
       THEN /\ db' = IF up THEN {} ELSE db
            /\ reply' = IF up THEN Resolved(JsString("OK"))
                        ELSE Rejected("StoreError")
            /\ scan' = NoScan
            /\ stable' = {}
       ELSE /\ scan' = [NoScan EXCEPT !.pc = "scan", !.pattern = p,
                                      !.count = ScanCount]
            /\ stable' = {k \in db : Glob(p, k)}
            /\ reply' = Resolved(JsUndefined)
            /\ db' = db
    /\ UNCHANGED <<cacheVars, lockVars, scalarVars, collVars>>

\* scanCallback(err, result): on an error the loop ends; else UNLINK goes out
\* for the keys of this round, and the next SCAN behind it unless the store
\* returned cursor '0'.
ScanReply(m) ==
    /\ scan.pc = "scan"
    /\ m <= scan.count
    /\ IF ~up
       THEN scan' = [scan EXCEPT !.pc = "failed"]
       ELSE LET keys == ScanKeys(db, scan.pattern, scan.cursor, m)
                next == ScanNext(scan.cursor, m)
            IN scan' = [scan EXCEPT
                           !.rounds = @ + 1,
                           !.cursor = next,
                           !.keys = keys,
                           !.pc = IF keys # {} THEN "unlink"
                                  ELSE IF next # 0 THEN "scan" ELSE "done"]
    /\ UNCHANGED <<cacheVars, lockVars, scalarVars, collVars, db, stable,
                   reply>>

\* The store answers the UNLINK; a failure is handed to debug() and nothing
\* else.  The SCAN sent behind it, if any, is next.
UnlinkReply ==
    /\ scan.pc = "unlink"
    /\ db' = IF up THEN db \ scan.keys ELSE db
    /\ scan' = [scan EXCEPT !.pc = IF scan.cursor # 0 THEN "scan" ELSE "done",
                            !.keys = {},
                            !.errs = @ \/ ~up]
    /\ UNCHANGED <<cacheVars, lockVars, scalarVars, collVars, stable, reply>>

\* Another client of the database writes or deletes a key.
OtherWrite(k) ==
    /\ up
    /\ db' = db \cup {k}
    /\ stable' = stable \ {k}
    /\ UNCHANGED <<cacheVars, lockVars, scalarVars, collVars, scan, reply>>

OtherDelete(k) ==
    /\ up
    /\ k \in db
    /\ db' = db \ {k}
    /\ stable' = stable \ {k}
    /\ UNCHANGED <<cacheVars, lockVars, scalarVars, collVars, scan, reply>>

----------------------------------------------------------------------------
(* The cache side. *)

\* the facets a specification leaves at rest: no prefix, nothing sent, empty
\* collections, an empty database, no flush
IdleData == InitData /\ prefix = "" /\ InitColl /\ InitFlush

Init == InitCache /\ InitLock /\ IdleData

Next ==
    \/ \E i \in Calls, k \in Keys : Call(i, k)
    \/ \E i \in Calls, v \in ExecValues : Settle(i, Resolved(v))
    \/ \E i \in Calls : Settle(i, Rejected("ExecError"))
    \/ \E i \in Calls : GetFails(i)
    \/ \E i \in Calls : GetHit(i)
    \/ \E i \in Calls : GetMiss(i)
    \/ \E i \in Calls : ThenHandler(i)
    \/ \E i \in Calls : CatchHandler(i)
    \/ RunImmediate
    \/ \E k \in Keys, v \in SetValues, ex \in ExArgs : Set(k, v, ex)
    \/ \E k \in Keys : Remove(k)
    \/ \E obj \in SetAllArgs : SetAll(obj)
    \/ \E k \in Keys : Expire(k)
    \/ StoreDown
    \/ StoreUp

Spec == Init /\ [][Next]_vars

----------------------------------------------------------------------------
(* The lock side: the cache is at rest with the default options. *)

InitL == InitLock /\ InitCache /\ ttl = DefaultTtl /\ IdleData

NextL ==
    \/ \E a \in Instances : turnOnLock(a)
    \/ \E a \in Instances, l \in LockNames : lock(a, l)
    \/ \E a \in Instances : Granted(a)
    \/ \E a \in Instances : Retry(a)
    \/ \E a \in Instances : Contention(a)
    \/ \E a \in Instances : unlock(a)
    \/ Tick

SpecLock == InitL /\ [][NextL]_vars

----------------------------------------------------------------------------
(* The cache side with executors that resolve to different values, next to *)
(* other writers and removers of the key; the store stays connected.       *)

InitC == InitCache /\ ttl = DefaultTtl /\ InitLock /\ IdleData

NextRace ==
    \/ \E i \in Calls, k \in Keys : Call(i, k)
    \/ \E i \in Calls, v \in RaceValues : Settle(i, Resolved(v))
    \/ \E i \in Calls : Settle(i, Rejected("ExecError"))
    \/ \E i \in Calls : GetHit(i)
    \/ \E i \in Calls : GetMiss(i)
    \/ \E i \in Calls : ThenHandler(i)
    \/ \E i \in Calls : CatchHandler(i)
    \/ RunImmediate
    \/ \E k \in Keys, v \in SetValues : Set(k, v, 0)
    \/ \E k \in Keys : Remove(k)

SpecRace == InitC /\ [][NextRace]_vars

----------------------------------------------------------------------------
(* The cache side up to its teardown: withCache calls and another caller's *)
(* set, with destroy() at any moment.                                      *)

NextEnd ==
    \/ \E i \in Calls, k \in Keys : Call(i, k)
    \/ \E i \in Calls, v \in ExecValues : Settle(i, Resolved(v))
    \/ \E i \in Calls : Settle(i, Rejected("ExecError"))
    \/ \E i \in Calls : GetFails(i)
    \/ \E i \in Calls : GetHit(i)
    \/ \E i \in Calls : GetMiss(i)
    \/ \E i \in Calls : ThenHandler(i)
    \/ \E i \in Calls : CatchHandler(i)
    \/ RunImmediate
    \/ \E k \in Keys, v \in SetValues : Set(k, v, 0)
    \/ destroy

SpecEnd == InitC /\ [][NextEnd]_vars

----------------------------------------------------------------------------
(* The scalar operations under the clock, and cacheKey. *)

InitD == InitCache /\ InitLock /\ InitData /\ InitColl /\ InitFlush

NextD ==
    \/ \E k \in Keys, v \in SetValues, ex \in ExArgs : CallSet(k, v, ex)
    \/ \E k \in Keys : CallGet(k)
    \/ \E k \in Keys : CallRemove(k)
    \/ \E obj \in SetAllArgs : CallSetAll(obj)
    \/ \E o \in KeyArgs : CallCacheKey(o)
    \/ Elapse
    \/ StoreDown
    \/ StoreUp

SpecData == InitD /\ [][NextD]_vars

----------------------------------------------------------------------------
(* The list collection. *)

NextList ==
    \/ \E vs \in ListArgs : ListSetAll(vs)
    \/ \E v \in ListValues : ListPush(v)
    \/ \E v \in ListValues : ListUnshift(v)
    \/ ListPop
    \/ ListShift
    \/ ListGetAll
    \/ ListRemoveAll
    \/ ListLength
    \/ StoreDown
    \/ StoreUp

SpecList == InitC /\ [][NextList]_vars

----------------------------------------------------------------------------
(* The set collection. *)

NextSet ==
    \/ \E vs \in SUBSET SetMembers : SetAdd(vs)
    \/ \E vs \in SUBSET SetMembers : SetRemove(vs)
    \/ \E v \in SetMembers : SetContains(v)
    \/ SetLength
    \/ StoreDown
    \/ StoreUp

SpecSet == InitC /\ [][NextSet]_vars

----------------------------------------------------------------------------
(* flush, next to the other clients of the database. *)

NextFlush ==
    \/ \E p \in Patterns : Flush(p)
    \/ \E m \in 1..Len(SlotOrder) : ScanReply(m)
    \/ UnlinkReply
    \/ \E k \in FlushKeys : OtherWrite(k)
    \/ \E k \in FlushKeys : OtherDelete(k)
    \/ StoreDown
    \/ StoreUp

SpecFlush == InitC /\ [][NextFlush]_vars

----------------------------------------------------------------------------
(* Claims about withCache and the scalar write paths, checked under Spec. *)

\* call i missed, subscribed to its executor, and the executor resolved
MissResolved(i) ==
    /\ calls[i].pc = "done"
    /\ calls[i].subs = 1
    /\ calls[i].exec.st = "resolved"

\* call i missed, subscribed to its executor, and the executor rejected
MissRejected(i) ==
    /\ calls[i].pc = "done"
    /\ calls[i].subs = 1
    /\ calls[i].exec.st = "rejected"

\* this step runs the deferred task of call i
RunsDeferred(i) ==
    /\ immediates # <<>>
    /\ Head(immediates) = i
    /\ immediates' = Tail(immediates)

\* the value call i resolved with has a JSON text
Serializable(i) == serialize(calls[i].outcome.val).t = "string"

\* C1, first half: a call that found no entry has had its computation started
\* once, has subscribed to it once, and returns the value it resolved with.
C1_Returned ==
    \A i \in Calls :
        MissResolved(i) =>
            /\ calls[i].invoked = 1
            /\ calls[i].outcome = Resolved(calls[i].exec.val)

\* C1, second half: when the deferred write-back of such a call runs against
\* a store that answers, get(k) right after it returns the serialized value.
C1_WriteBack ==
    \A i \in Calls :
        (RunsDeferred(i) /\ up /\ calls[i].outcome.st = "resolved" /\ Serializable(i))
            => get(store', calls[i].key) = serialize(calls[i].outcome.val)

\* C1: withCache(k, c) with no entry at k: c is invoked exactly once, the call
\* returns c's resolved value, and once the deferred write-back has run a
\* get(k) returns the serialized form of that value.
C1_MissRoundTrip == []C1_Returned /\ [][C1_WriteBack]_vars

C1_Witness ==
    \E i \in Calls :
        /\ MissResolved(i)
        /\ log[i] = "set ok"
        /\ Serializable(i)
        /\ get(store, calls[i].key) = serialize(calls[i].outcome.val)

\* call i read an entry that JSON.parse accepts
ValidHit(i) ==
    /\ calls[i].pc = "done"
    /\ calls[i].got.st = "resolved"
    /\ Truthy(calls[i].got.val)
    /\ Parses(calls[i].got.val.s)

\* C2: withCache(k, c) with a valid entry at k: c is never invoked and the
\* deserialized cached value is returned.
C2_HitSkipsComputation ==
    \A i \in Calls :
        ValidHit(i) =>
            /\ calls[i].invoked = 0
            /\ calls[i].subs = 0
            /\ calls[i].outcome = Resolved(deserialize(calls[i].got.val.s))

\* C3 as claimed: when c rejects the caller receives c's failure, and once the
\* deferred cleanup has run no entry exists at k, whatever else runs on k.
C3_NoEntryAfterFailure ==
    \A i \in Calls :
        MissRejected(i) =>
            /\ calls[i].outcome = Rejected("ExecError")
            /\ (log[i] # "" => store[calls[i].key] = NoEntry)

C3_Failure ==
    \A i \in Calls : MissRejected(i) => calls[i].outcome = Rejected(calls[i].exec.err)

C3_Cleanup ==
    \A i \in Calls :
        (RunsDeferred(i) /\ up /\ calls[i].outcome.st = "rejected")
            => store'[calls[i].key] = NoEntry

\* C3, amended: when c rejects after a miss the caller receives exactly c's
\* failure, and the deferred cleanup, run against a store that answers,
\* leaves no entry at k at that moment; later writes to k are not prevented.
C3_FailureThenCleanup == []C3_Failure /\ [][C3_Cleanup]_vars

C3_Witness ==
    \E i \in Calls :
        /\ MissRejected(i)
        /\ calls[i].outcome = Rejected("ExecError")
        /\ log[i] = "set ok"
        /\ store[calls[i].key] = NoEntry

C4_Outcome ==
    \A i \in Calls :
        /\ MissResolved(i) => calls[i].outcome = Resolved(calls[i].exec.val)
        /\ MissRejected(i) => calls[i].outcome = Rejected(calls[i].exec.err)

C4_Step ==
    \A i \in Calls :
        \* the handler that hands the result back only schedules the task
        /\ (calls[i].outcome.st = "none" /\ calls'[i].outcome.st # "none")
              => store' = store /\ log' = log
        \* the task runs in a later turn, after the result was handed back
        /\ (log[i] = "" /\ log'[i] # "") => calls[i].outcome.st # "none"
        \* and nothing, the task's failure included, changes the outcome
        /\ calls[i].outcome.st # "none" => calls'[i].outcome = calls[i].outcome

\* C4: on a miss the caller gets c's outcome without waiting for persistence:
\* the write-back (or cleanup) is issued in a later turn than the one that
\* hands the result back, and its failure never changes the caller's outcome.
C4_FireAndForget == []C4_Outcome /\ [][C4_Step]_vars

C4_Witness ==
    \E i \in Calls :
        /\ MissResolved(i)
        /\ log[i] = "set error"
        /\ calls[i].outcome = Resolved(calls[i].exec.val)

\* call i read an entry that JSON.parse rejects
CorruptHit(i) ==
    /\ calls[i].pc = "done"
    /\ calls[i].got.st = "resolved"
    /\ Truthy(calls[i].got.val)
    /\ ~Parses(calls[i].got.val.s)

\* C5: an entry that cannot be deserialized is treated as a miss: it is
\* invalidated, c is used and c's value returned; null is never returned as
\* if it were the cached value.
C5_CorruptEntryIsMiss ==
    \A i \in Calls :
        CorruptHit(i) =>
            /\ calls[i].subs = 1
            /\ calls[i].outcome = Resolved(calls[i].exec.val)

\* C6: when the read of k fails, c is still used and its result returned.
C6_ReadFailureIsMiss ==
    \A i \in Calls :
        (calls[i].pc = "done" /\ calls[i].got.st = "rejected") =>
            /\ calls[i].subs = 1
            /\ calls[i].outcome.err # "StoreError"

\* C10: every entry written through set, setAll or the write-back carries a
\* positive expiry: the per-call ex when one is given, else the configured
\* ttl (300 by default).
C10_WritesExpire ==
    /\ ttl \in {DefaultTtl} \cup (TtlOpts \ {0})
    /\ \A k \in Keys :
          store[k].by \in {"set", "setAll", "withCache"} =>
              /\ store[k].ex > 0
              /\ store[k].ex = (IF store[k].arg > 0 THEN store[k].arg ELSE ttl)

C10_Witness ==
    \E k \in Keys :
        /\ store[k].by = "withCache"
        /\ store[k].ex = DefaultTtl

----------------------------------------------------------------------------
(* Claims about locks, checked under SpecLock. *)

\* this step is an attempt of instance a's lock call
Attempts(a) == last'.inst = a /\ last'.op \in {"granted", "retry", "contention"}

\* C7: a lock(L) that reaches the store while another holder's lease is valid
\* fails with lock contention (it is never granted); with the lease
\* released, a lock(L) succeeds.
C7_ContendedLockFails ==
    /\ last.op = "granted" => ~last.refused
    /\ last.op \in {"retry", "contention"} => Valid(last.name)

C8_Step ==
    \A l \in LockNames :
        (last'.op = "unlock" /\ leases[l].token # 0 /\ leases'[l] # leases[l])
            => /\ owner[leases[l].token] = last'.inst
               /\ locker[last'.inst].value = leases[l].token

\* C8: unlock releases only a lease whose value is the caller's: after A's
\* lease on L expired and B acquired L, A's unlock leaves B's lease alone.
C8_UnlockOwnLeaseOnly == [][C8_Step]_vars

C8_Witness ==
    \E l \in LockNames :
        /\ last.op = "unlock"
        /\ locker[last.inst].resource = l
        /\ Valid(l)
        /\ owner[leases[l].token] # last.inst
        /\ leases[l].replaced = locker[last.inst].value

C9_Step ==
    /\ \A a \in Instances :
          (Attempts(a) /\ leases[pending[a].resource].expireAt <= now)
              => /\ last'.op = "granted"
                 /\ leases'[pending[a].resource].token = pending[a].value
                 /\ leases'[pending[a].resource].expireAt = now + redlockttl
    /\ \A l \in LockNames :
          leases'[l].token = leases[l].token
              => leases'[l].expireAt = leases[l].expireAt

\* C9: a lease that is never released stops being honored once its ttl
\* (1000 ms) has elapsed: a lock attempt made from then on is granted; and no
\* step extends a lease.
C9_LeaseExpires == [][C9_Step]_vars

C9_Witness ==
    \E l \in LockNames :
        /\ last.op = "granted"
        /\ last.name = l
        /\ leases[l].replaced # 0
        /\ owner[leases[l].replaced] # last.inst

----------------------------------------------------------------------------
(* Claims about racing withCache calls, checked under SpecRace. *)

\* calls i and j are distinct calls on one key that both found it absent
Racing(i, j) ==
    /\ i # j
    /\ calls[i].key = calls[j].key
    /\ calls[i].subs = 1
    /\ calls[j].subs = 1

\* every call that missed has had its own computation started and returns
\* what that computation settled to, whatever the calls racing with it do
C17_Own ==
    \A i \in Calls :
        calls[i].pc = "done" /\ calls[i].subs = 1
            => /\ calls[i].invoked = 1
               /\ calls[i].outcome = calls[i].exec

\* the deferred task of a racing call overwrites or deletes whatever entry is
\* at the key when it runs
C17_Step ==
    \A i \in Calls, j \in Calls :
        RunsDeferred(i) /\ Racing(i, j)
            => IF calls[i].outcome.st = "resolved"
               THEN get(store', calls[i].key) = serialize(calls[i].outcome.val)
               ELSE get(store', calls[i].key) = JsNull

\* C17: no coalescing: concurrent withCache calls on one absent key each
\* start their own computation and return its value, and the entry left at
\* the key is that of the write-back or cleanup applied last, with no conflict
\* detection against other writers, removers or failed calls' cleanups.
C17_LastWriteWins == []C17_Own /\ [][C17_Step]_vars

\* two calls found the key absent and resolved with different values of their
\* own; the write-back of the first has been applied and that of the second,
\* still queued, is about to replace it
C17_Witness ==
    /\ Racing(1, 2)
    /\ calls[2].got = Resolved(JsNull)
    /\ calls[1].outcome = Resolved(JsNumber(7))
    /\ calls[2].outcome = Resolved(JsNumber(8))
    /\ log[1] = "set ok"
    /\ store["k1"].by = "withCache"
    /\ store["k1"].val = "7"
    /\ immediates = <<2>>

----------------------------------------------------------------------------
(* Claims about the scalar operations under the clock and about cacheKey,  *)
(* checked under SpecData.                                                 *)

\* the call is a set / setAll that writes key k
Writes(k) ==
    \/ \E v \in SetValues, ex \in ExArgs : CallSet(k, v, ex)
    \/ \E obj \in SetAllArgs : k \in DOMAIN obj /\ CallSetAll(obj)

\* no entry is readable at or after the instant its expiry has elapsed
C11_Expired == \A k \in Keys : time >= deadline[k] => get(store, k) = JsNull

C11_Step ==
    /\ \A k \in Keys, v \in SetValues, ex \in ExArgs :
           CallSet(k, v, ex) /\ reply'.st = "resolved"
               => /\ get(store', k) = JsString(v)
                  /\ deadline'[k] = time + (IF ex # 0 THEN ex ELSE ttl)
    /\ \A k \in Keys :
           CallRemove(k) /\ reply'.st = "resolved" => get(store', k) = JsNull
    /\ \A k \in Keys :
           CallGet(k) /\ reply'.st = "resolved" => reply'.val = get(store, k)
    /\ \A k \in Keys :
           get(store, k) # JsNull /\ get(store', k) # get(store, k)
               => \/ Writes(k)
                  \/ CallRemove(k)
                  \/ Elapse /\ time' >= deadline[k]

\* C11: once set(k, v) has completed, get(k) returns v for as long as the
\* entry is neither removed, nor overwritten, nor expired; once remove(k) has
\* completed, or the entry's TTL has elapsed, get(k) returns null.
C11_SetGetRemove == []C11_Expired /\ [][C11_Step]_vars

\* a value was set, was read back while the clock ran, and a later get found
\* null once the TTL had elapsed
C11_Witness ==
    /\ sent.cmd = "get"
    /\ reply = Resolved(JsNull)
    /\ deadline["k1"] > TimeStep
    /\ time >= deadline["k1"]

\* the values JSON.stringify has a text for
Canonical(o) == o.t \in {"number", "string", "null"}

C14_Step ==
    \A o \in KeyArgs :
        CallCacheKey(o)
            => IF Canonical(o)
               THEN reply' = Returned(JsString(Digest(Stringify(o).s)))
               ELSE /\ reply'.st = "thrown"
                    /\ \A t \in {"null", "undefined", ""} :
                           reply'.val # JsString(Digest(t))

C15_KeysPrefixed == sent.keys = {prefix \o k : k \in sent.asked}

----------------------------------------------------------------------------
(* Claims about cache.list(key), checked under SpecList. *)

\* the call went through
Replied == reply'.st = "resolved"

C12_Step ==
    /\ \A v \in ListValues :
           ListPush(v) /\ Replied
               => /\ Len(list') = Len(list) + 1
                  /\ list'[Len(list')] = v
                  /\ SubSeq(list', 1, Len(list)) = list
    /\ \A v \in ListValues :
           ListUnshift(v) /\ Replied
               => /\ Len(list') = Len(list) + 1
                  /\ list'[1] = v
                  /\ SubSeq(list', 2, Len(list')) = list
    /\ ListPop /\ Replied
           => IF list = <<>> THEN reply'.val = JsNull /\ list' = <<>>
              ELSE /\ reply'.val = JsString(list[Len(list)])
                   /\ list' = SubSeq(list, 1, Len(list) - 1)
    /\ ListShift /\ Replied
           => IF list = <<>> THEN reply'.val = JsNull /\ list' = <<>>
              ELSE /\ reply'.val = JsString(list[1])
                   /\ list' = SubSeq(list, 2, Len(list))
    /\ ListGetAll /\ Replied
           => /\ reply'.val.t = "array"
              /\ reply'.val.items = list
              /\ list' = list

\* C12: a list is a double-ended queue: push appends at the tail, unshift
\* prepends at the head, pop removes and returns the tail element, shift
\* removes and returns the head element, getAll() returns the elements from
\* head to tail, and pop / shift on an empty list return null.
C12_ListIsDeque == [][C12_Step]_vars

\* unshift 'one' and push 'two' have made the list, and getAll has returned
\* ['one', 'two']
C12_Witness ==
    /\ list = <<"one", "two">>
    /\ reply = Resolved(JsArray(<<"one", "two">>))

\* C23: list(k).removeAll() called with its default arguments leaves the list
\* empty, for a list of any length, length 1 included.  ("OK" is the reply of
\* removeAll and of no other list operation, and every list operation
\* replaces the reply.)
C23_RemoveAllEmpties == reply = Resolved(JsString("OK")) => list = <<>>

C24_Step ==
    \A vs \in ListArgs :
        ListSetAll(vs) /\ Replied => lrange(list', 0, -1) = vs

\* C24: list(k).setAll(values) followed by list(k).getAll() returns exactly
\* values, in the order given, whatever the list held before the call.
C24_SetAllThenGetAll == [][C24_Step]_vars

----------------------------------------------------------------------------
(* Claims about cache.setOf(key), checked under SpecSet. *)

\* the values whose last add / remove call was an add
AddedNotRemoved == {v \in SetMembers : hist[v] = "added"}

C16_Members == members = AddedNotRemoved

C16_Step ==
    \A v \in SetMembers :
        SetContains(v) /\ Replied
            => (reply'.val.n # 0 <=> v \in AddedNotRemoved)

\* C16: add / remove / contains of setOf(key) are those of a mathematical
\* set: after any sequence of add and remove calls the stored members are the
\* values added and not removed since, duplicates collapsing, and contains(v)
\* is truthy exactly when v is a member.
C16_SetIsSet == []C16_Members /\ [][C16_Step]_vars

\* "a" was added and removed again, "b" was added, and the last call was
\* answered with 0
C16_Witness ==
    /\ hist["a"] = "removed"
    /\ members = {"b"}
    /\ reply = Resolved(JsNumber(0))

----------------------------------------------------------------------------
(* Claims about flush, checked under SpecFlush. *)

\* the loop runs from cursor '0' with COUNT 50 and ends, short of an error,
\* only when the store has returned cursor '0'; by then every key that
\* matched when flush was called and that no other client has touched since
\* is gone, provided the store accepted the UNLINKs
C18_Done ==
    /\ scan.pc # "idle" => scan.count = ScanCount
    /\ scan.pc = "done" => scan.cursor = 0
    /\ scan.pc = "done" /\ ~scan.errs => stable \cap db = {}

C18_Step ==
    /\ Flush(<<"*">>) /\ Replied => db' = {}
    /\ \A p \in Patterns \ {<<"*">>} :
           Flush(p) => scan'.pc = "scan" /\ scan'.cursor = 0 /\ db' = db
    /\ \A m \in 1..Len(SlotOrder) :
           ScanReply(m) /\ up /\ scan'.cursor # 0
               => scan'.pc \in {"scan", "unlink"}
    /\ UnlinkReply /\ up
           => /\ db' = db \ {k \in scan.keys : Glob(scan.pattern, k)}
              /\ scan.keys # {}

\* C18: flush('*') clears the whole database; flush(p) for a restricted
\* pattern p runs SCAN rounds with COUNT 50 from cursor '0', unlinks the
\* matching keys of each round, and goes on until the store returns cursor
\* '0'; once the loop has ended that way, every key that matched p and was
\* there throughout the flush has been deleted.
C18_FlushCoversPattern == []C18_Done /\ [][C18_Step]_vars

\* a flush of a* took more than one round, has ended at cursor '0', and a key
\* outside the pattern is still there
C18_Witness ==
    /\ scan.pc = "done"
    /\ ~scan.errs
    /\ scan.rounds > 1
    /\ Cardinality(stable) = 2
    /\ db = {<<"b", "1">>}

----------------------------------------------------------------------------
(* A further claim about withCache, checked under Spec. *)

\* C19: withCache on a miss whose result has no serialized form: the caller
\* still receives the result, and the persistence step is skipped: no entry,
\* in particular no null or placeholder entry, is written at the key.
C19_UnserializableSkipsWrite ==
    \A i \in Calls :
        MissResolved(i) /\ ~Serializable(i)
            => /\ calls[i].outcome = Resolved(calls[i].exec.val)
               /\ log[i] # "set ok"
               /\ ~(store[calls[i].key].by = "withCache"
                    /\ store[calls[i].key].val \in {"null", "undefined"})

\* GET of call i has returned a non-empty string
Hit(i) ==
    /\ calls[i].got.st = "resolved"
    /\ Truthy(calls[i].got.val)

\* a call that hit has returned, has no deferred task queued and none has run
C22_NoTask ==
    \A i \in Calls :
        Hit(i) => /\ calls[i].pc = "done"
                  /\ \A n \in 1..Len(immediates) : immediates[n] # i
                  /\ log[i] = ""

\* the step that takes the hit, and every later settling of that call's
\* executor, leave the entry as it is
C22_Step ==
    \A i \in Calls :
        /\ GetHit(i) => store' = store /\ immediates' = immediates
        /\ \A r \in {Resolved(v) : v \in ExecValues} \cup {Rejected("ExecError")} :
               Hit(i) /\ Settle(i, r) => store' = store /\ immediates' = immediates

\* C22: withCache on a hit leaves the store unchanged: when get(k) returns a
\* non-empty value, withCache sends no write and no delete for k, whether the
\* executor it was given later resolves or rejects.
C22_HitLeavesStore == []C22_NoTask /\ [][C22_Step]_vars

\* a call hit the entry another caller had set, its executor has rejected
\* since, and the entry is as that caller wrote it
C22_Witness ==
    \E i \in Calls :
        /\ Hit(i)
        /\ calls[i].exec.st = "rejected"
        /\ calls[i].outcome.st = "resolved"
        /\ store[calls[i].key].by = "set"
        /\ store[calls[i].key].val = calls[i].got.val.s

----------------------------------------------------------------------------
(* A claim about destroy(), checked under SpecEnd. *)

\* what a call that missed has handed to its caller is what its executor
\* settled to, before and after the teardown
C25_Delivered ==
    \A i \in Calls :
        calls[i].pc = "done" /\ calls[i].subs = 1
            => calls[i].outcome = calls[i].exec

\* a deferred task that runs on the ended client fails, hands the error to
\* debug(), and changes neither a call's outcome nor the store; destroy
\* itself changes no outcome and drops no queued task
C25_Step ==
    /\ \A i \in Calls :
           RunsDeferred(i) /\ closed
               => /\ log'[i] = "set error"
                  /\ \A j \in Calls : log'[j] \in {"", "set ok", "set error"}
                  /\ calls' = calls
                  /\ store' = store
    /\ destroy => calls' = calls /\ immediates' = immediates

\* C25: destroy() after a withCache miss has returned its result and before
\* the deferred write-back or cleanup runs: the store failure that follows
\* is absorbed by withCache's own task; the result the caller already has is
\* unaffected and no error leaves the task.
C25_TeardownAbsorbed == []C25_Delivered /\ [][C25_Step]_vars

\* a call missed and returned 7; destroy() came before its write-back, which
\* has failed since and left the key without an entry
C25_Witness ==
    \E i \in Calls :
        /\ closed
        /\ MissResolved(i)
        /\ calls[i].outcome = Resolved(JsNumber(7))
        /\ log[i] = "set error"
        /\ store[calls[i].key] = NoEntry

----------------------------------------------------------------------------
(* A further claim about locks, checked under SpecLock. *)

\* the instances whose Lock names the lease the store holds for l, unexpired
Holders(l) ==
    {a \in Instances : /\ Valid(l)
                       /\ locker[a].resource = l
                       /\ locker[a].value = leases[l].token}

C20_OneHolder == \A l \in LockNames : Cardinality(Holders(l)) <= 1

\* the store takes a new lease for a name only when it holds no unexpired one
C20_Step ==
    \A l \in LockNames :
        leases'[l].token # leases[l].token /\ leases'[l].token # 0
            => ~Valid(l)

\* C20: at most one valid lease per name: under every interleaving of lock,
\* unlock and lease expiry by the instances, the store holds at most one
\* unexpired lease for a lock name, and grants a new one only when it holds
\* none.
C20_OneLeasePerName == []C20_OneHolder /\ [][C20_Step]_vars

\* A holds the unexpired lease of L while B's lock("L") has been refused and
\* is still trying
C20_Witness ==
    /\ Valid("L")
    /\ Holders("L") = {"A"}
    /\ pending["B"].resource = "L"
    /\ pending["B"].refused

\* the lease on l is unexpired, was granted to instance a, and is not the one
\* this.locker of a refers to
Orphaned(a, l) ==
    /\ Valid(l)
    /\ owner[leases[l].token] = a
    /\ leases[l].token # locker[a].value

C21_Step ==
    /\ \A a \in Instances, l \in LockNames :
           last'.op = "unlock" /\ last'.inst = a /\ leases'[l] # leases[l]
               => /\ locker[a].resource = l
                  /\ locker[a].value = leases[l].token
    /\ \A a \in Instances, l \in LockNames :
           Orphaned(a, l) => leases'[l] = leases[l]

\* C21: an instance keeps one current Lock: unlock() releases the lease of
\* the lock() that completed last on the instance and no other; once lock(L)
\* and lock(M) have both succeeded on one instance, the lease on L cannot be
\* released through the instance and stays until its ttl has elapsed.
C21_SingleLocker == [][C21_Step]_vars

\* A was granted L and then M, has unlocked, and with that released M; the
\* lease on L is still honored and out of A's reach
C21_Witness ==
    /\ last.op = "unlock"
    /\ last.inst = "A"
    /\ locker["A"].resource = "M"
    /\ leases["M"] = NoLease
    /\ Orphaned("A", "L")


====
